---- MODULE Spec2Model ----
(***************************************************************************)
(* Model of presto-template-starter-go (src/main.go): the pipeline that    *)
(* splits a YAML frontmatter block off a Markdown document, writes a Typst *)
(* page setup and walks the goldmark tree of the body writing Typst.       *)
(*                                                                         *)
(* Bytes are one-character strings and a []byte / string is a sequence of  *)
(* them.  The bytes written to the output are kept as a sequence in which  *)
(* every newline is one element, every other constant piece of a format    *)
(* string is one element (the piece, as a string) and every data byte is   *)
(* one element (the byte).                                                 *)
(***************************************************************************)
EXTENDS Integers, Sequences, FiniteSets, TLC

VARIABLES pc, input, fm, body, resplit, meta, yamlCalls, out, stdout,
          stderr, exitCode, doc, stack, events

vars == <<pc, input, fm, body, resplit, meta, yamlCalls, out, stdout,
          stderr, exitCode, doc, stack, events>>

(***************************************************************************)
(* Bounds of the model.                                                    *)
(***************************************************************************)
MaxInput == 9
MaxTitle == 3
MaxNodes == 3
MaxContent == 1

(***************************************************************************)
(* Go string primitives, with Go's 0-based indices.                        *)
(***************************************************************************)
LF == "\n"
CR == "\r"
Dash == "-"

Bytes == {Dash, LF, CR, "a"}

\* All byte strings over alphabet A of length at most n.
StringsUpTo(A, n) == UNION {[1..k -> A] : k \in 0..n}

\* s[lo:hi]
Slice(s, lo, hi) == SubSeq(s, lo + 1, hi)

\* s[i]
At(s, i) == s[i + 1]

\* strings.HasPrefix(s, prefix)
HasPrefix(s, prefix) ==
    /\ Len(s) >= Len(prefix)
    /\ Slice(s, 0, Len(prefix)) = prefix

\* strings.Index(s, substr): the first index of substr in s, or -1.
Index(s, substr) ==
    LET hits == {i \in 0..(Len(s) - Len(substr)) :
                    Slice(s, i, i + Len(substr)) = substr}
    IN  IF hits = {} THEN -1
        ELSE CHOOSE i \in hits : \A j \in hits : i <= j

\* The nil []byte.  []byte("") is present and empty.
Nil == [present |-> FALSE, bytes |-> <<>>]
Some(b) == [present |-> TRUE, bytes |-> b]

\* len(b) of a []byte that may be nil.
LenOf(b) == Len(b.bytes)

(***************************************************************************)
(* splitFrontmatter (main.go:80-105).                                      *)
(***************************************************************************)
\* rest := s[4:]
SkipOpening(s) == Slice(s, 4, Len(s))

\* A body that keeps the newline ending the closing delimiter line.
BodyStartKeepNewline(rest, idx) == idx + 4

\* bodyStart: idx + 4, then past one "\n", or past "\r" and a "\n" after it.
BodyStart(rest, idx) ==
    LET b0 == idx + 4
    IN  IF b0 < Len(rest) /\ At(rest, b0) = LF THEN b0 + 1
        ELSE IF b0 < Len(rest) /\ At(rest, b0) = CR
             THEN IF b0 + 1 < Len(rest) /\ At(rest, b0 + 1) = LF
                  THEN b0 + 2
                  ELSE b0 + 1
             ELSE b0

\* A search that forgets the newline before the dashes.
ClosingIndexNoNewline(rest) == Index(rest, <<Dash, Dash, Dash>>)

\* strings.Index(rest, "\n---")
ClosingIndex(rest) == Index(rest, <<LF, Dash, Dash, Dash>>)

splitFrontmatter(data) ==
    IF ~HasPrefix(data, <<Dash, Dash, Dash, LF>>)
       /\ ~HasPrefix(data, <<Dash, Dash, Dash, CR, LF>>)
    THEN [frontmatter |-> Nil, body |-> data]
    ELSE LET rest == SkipOpening(data)
             idx == ClosingIndex(rest)
         IN  IF idx < 0
             THEN [frontmatter |-> Nil, body |-> data]
             ELSE [frontmatter |-> Some(Slice(rest, 0, idx)),
                   body |-> Slice(rest, BodyStart(rest, idx), Len(rest))]

(***************************************************************************)
(* State of a run that no step has touched yet.                            *)
(***************************************************************************)
NoTree == <<>>

NotSplitYet == fm = Nil /\ body = <<>> /\ resplit = <<>>

\* var meta Frontmatter: the zero value; yaml.Unmarshal not called.
NotDecodedYet == meta = [Title |-> <<>>] /\ yamlCalls = <<>>

\* Nothing written, the process still running.
NoOutputYet == out = <<>> /\ stdout = <<>> /\ stderr = <<>> /\ exitCode = -1

NotWalkedYet == doc = NoTree /\ stack = <<>> /\ events = <<>>

(***************************************************************************)
(* main.go:62  fm, body := splitFrontmatter(input)                         *)
(***************************************************************************)
Split ==
    /\ pc = "split"
    /\ LET r == splitFrontmatter(input)
       IN  /\ fm' = r.frontmatter
           /\ body' = r.body
    /\ pc' = "decode"
    /\ UNCHANGED <<input, resplit, meta, yamlCalls, out, stdout, stderr,
                   exitCode, doc, stack, events>>

\* The document "---\n" + m + "\n---\n" + b.
Reconstruct(m, b) ==
    <<Dash, Dash, Dash, LF>> \o m \o <<LF, Dash, Dash, Dash, LF>> \o b

\* splitFrontmatter applied again, to the document rebuilt from its result.
Resplit ==
    /\ pc = "decode"
    /\ fm.present
    /\ resplit' = <<splitFrontmatter(Reconstruct(fm.bytes, body))>>
    /\ pc' = "resplit"
    /\ UNCHANGED <<input, fm, body, meta, yamlCalls, out, stdout, stderr,
                   exitCode, doc, stack, events>>

\* One more byte of the document arrives.
ReadByte ==
    /\ pc = "split"
    /\ Len(input) < MaxInput
    /\ \E b \in Bytes : input' = Append(input, b)
    /\ UNCHANGED <<pc, fm, body, resplit, meta, yamlCalls, out, stdout,
                   stderr, exitCode, doc, stack, events>>

InitSplit ==
    /\ pc = "split"
    /\ input = <<>>
    /\ NotSplitYet
    /\ NotDecodedYet
    /\ NoOutputYet
    /\ NotWalkedYet

NextSplit == ReadByte \/ Split \/ Resplit

SpecSplit == InitSplit /\ [][NextSplit]_vars

(***************************************************************************)
(* fmt verbs.                                                              *)
(***************************************************************************)
Quote == "\""
Backslash == "\\"

\* The three backquotes of a code fence, one element of the output (a string
\* of this module cannot hold a backquote).
Fence == "<3 backquotes>"

\* fmt.Fprintln(w, s)
Fprintln(s) == s \o <<LF>>

RECURSIVE Flatten(_)
\* The concatenation of a sequence of byte strings.
Flatten(ss) == IF ss = <<>> THEN <<>> ELSE Head(ss) \o Flatten(Tail(ss))

\* strconv.Quote's rendering of one byte inside the quotes.
QuoteByte(c) ==
    CASE c = Quote -> <<Backslash, Quote>>
      [] c = Backslash -> <<Backslash, Backslash>>
      [] c = LF -> <<Backslash, "n">>
      [] c = CR -> <<Backslash, "r">>
      [] OTHER -> <<c>>

\* A quoting that wraps the bytes in quotes and escapes nothing.
GoQuoteRaw(s) == <<Quote>> \o s \o <<Quote>>

\* %q of a string: strconv.Quote.
GoQuote(s) ==
    <<Quote>> \o Flatten([i \in 1..Len(s) |-> QuoteByte(s[i])]) \o <<Quote>>

Digit == <<"0", "1", "2", "3", "4", "5", "6", "7", "8", "9">>

RECURSIVE Itoa(_)
\* %d of a non-negative int.
Itoa(n) ==
    IF n < 10 THEN <<Digit[n + 1]>>
    ELSE Itoa(n \div 10) \o <<Digit[(n % 10) + 1]>>

(***************************************************************************)
(* writePageSetup (main.go:108-121).                                       *)
(***************************************************************************)
\* main.go:115-119, the lines written for a title.
TitleBlock(title) ==
    <<"#let title = ">> \o GoQuote(title) \o <<LF>>
    \o Fprintln(<<>>)
    \o <<"#align(center, text(size: 22pt, weight: \"bold\")[">> \o title
    \o <<"])", LF>>
    \o Fprintln(<<"#v(1em)">>)
    \o Fprintln(<<>>)

\* main.go:109-112, the lines written for every document.
PageSetupHead ==
    Fprintln(<<"#set page(paper: \"a4\")">>)
    \o Fprintln(<<"#set text(font: \"SimSun\", size: 12pt, lang: \"zh\")">>)
    \o Fprintln(<<"#set par(leading: 1.5em, first-line-indent: 2em)">>)
    \o Fprintln(<<>>)

\* A page setup that writes the title lines whatever the title.
writePageSetupAlwaysTitle(m) == PageSetupHead \o TitleBlock(m.Title)

writePageSetup(m) ==
    PageSetupHead \o (IF m.Title # <<>> THEN TitleBlock(m.Title) ELSE <<>>)

\* main.go:75  writePageSetup(w, &meta)
WritePageSetup ==
    /\ pc = "setup"
    /\ out' = out \o writePageSetup(meta)
    /\ pc' = "render"
    /\ UNCHANGED <<input, fm, body, resplit, meta, yamlCalls, stdout,
                   stderr, exitCode, doc, stack, events>>

TitleBytes == {"a", Quote, Backslash, LF}

InitPreamble ==
    /\ pc = "setup"
    /\ input = <<>>
    /\ NotSplitYet
    /\ meta \in [Title : StringsUpTo(TitleBytes, MaxTitle)]
    /\ yamlCalls = <<>>
    /\ NoOutputYet
    /\ NotWalkedYet

NextPreamble == WritePageSetup

SpecPreamble == InitPreamble /\ [][NextPreamble]_vars

(***************************************************************************)
(* The goldmark tree.  doc is the sequence of its nodes, node 1 the        *)
(* Document; a node names its parent, an earlier node, and the children of *)
(* a node are the nodes naming it, in the order of their numbers.          *)
(***************************************************************************)
Node(kind, level, text, soft, lines) ==
    [kind |-> kind, level |-> level, text |-> text, soft |-> soft,
     lines |-> lines]

DocumentNode == Node("Document", 0, <<>>, FALSE, <<>>)

\* The nodes a parser can hand over, one or more of every kind walked.
NodeLabels ==
    { Node("Heading", 1, <<>>, FALSE, <<>>),
      Node("Heading", 2, <<>>, FALSE, <<>>),
      Node("Paragraph", 0, <<>>, FALSE, <<>>),
      Node("Text", 0, <<"a">>, FALSE, <<>>),
      Node("Text", 0, <<"]">>, TRUE, <<>>),
      Node("List", 0, <<>>, FALSE, <<>>),
      Node("ListItem", 0, <<>>, FALSE, <<>>),
      Node("Emphasis", 1, <<>>, FALSE, <<>>),
      Node("Emphasis", 2, <<>>, FALSE, <<>>),
      Node("ThematicBreak", 0, <<>>, FALSE, <<>>),
      Node("CodeSpan", 0, <<"a">>, FALSE, <<>>),
      Node("CodeSpan", 0, <<Quote>>, FALSE, <<>>),
      Node("CodeSpan", 0, <<Backslash>>, FALSE, <<>>),
      Node("FencedCodeBlock", 0, <<>>, FALSE, <<>>),
      Node("FencedCodeBlock", 0, <<>>, FALSE, << <<"a", LF>>, <<"b", LF>> >>),
      Node("FencedCodeBlock", 0, <<>>, FALSE, << <<"a", LF>>, <<LF>> >>),
      Node("Link", 0, <<>>, FALSE, <<>>),
      Node("Blockquote", 0, <<>>, FALSE, <<>>) }

\* The ids of the children of node n, first to last.
RECURSIVE ChildrenFrom(_, _, _)
ChildrenFrom(d, n, i) ==
    IF i > Len(d) THEN <<>>
    ELSE (IF d[i].parent = n THEN <<i>> ELSE <<>>) \o ChildrenFrom(d, n, i + 1)

Children(d, n) == ChildrenFrom(d, n, 1)

(***************************************************************************)
(* The walker of renderBody (main.go:129-205).                             *)
(***************************************************************************)
RECURSIVE TrimRightLF(_)
\* strings.TrimRight(s, "\n")
TrimRightLF(s) ==
    IF s # <<>> /\ s[Len(s)] = LF THEN TrimRightLF(SubSeq(s, 1, Len(s) - 1))
    ELSE s

\* The bytes the switch of the walker writes for a node, on entering or not.
WalkerWrites(node, entering) ==
    CASE node.kind = "Heading" ->
            IF entering
            THEN <<"#heading(level: ">> \o Itoa(node.level) \o <<")[">>
            ELSE Fprintln(<<"]">>) \o Fprintln(<<>>)
      [] node.kind = "Paragraph" ->
            IF ~entering THEN Fprintln(<<>>) \o Fprintln(<<>>) ELSE <<>>
      [] node.kind = "Text" ->
            IF entering
            THEN node.text \o (IF node.soft THEN Fprintln(<<>>) ELSE <<>>)
            ELSE <<>>
      [] node.kind = "List" ->
            IF ~entering THEN Fprintln(<<>>) ELSE <<>>
      [] node.kind = "ListItem" ->
            IF entering THEN <<"- ">> ELSE Fprintln(<<>>)
      [] node.kind = "Emphasis" ->
            IF node.level = 2
            THEN (IF entering THEN <<"#strong[">> ELSE <<"]">>)
            ELSE (IF entering THEN <<"#emph[">> ELSE <<"]">>)
      [] node.kind = "ThematicBreak" ->
            IF entering
            THEN Fprintln(<<"#line(length: 100%)">>) \o Fprintln(<<>>)
            ELSE <<>>
      [] node.kind = "CodeSpan" ->
            IF entering THEN <<"#raw(\"">> \o node.text \o <<"\")">> ELSE <<>>
      [] node.kind = "FencedCodeBlock" ->
            IF entering
            THEN <<Fence, LF>> \o TrimRightLF(Flatten(node.lines))
                 \o <<LF, Fence, LF, LF>>
            ELSE <<>>
      [] OTHER -> <<>>

MappedKinds ==
    {"Heading", "Paragraph", "Text", "List", "ListItem", "Emphasis",
     "ThematicBreak", "CodeSpan", "FencedCodeBlock"}

\* A walker that takes level 1 for strong emphasis.
WalkerEmphasisSwapped(node, entering) ==
    [writes |-> IF node.kind = "Emphasis"
                THEN WalkerWrites([node EXCEPT !.level = 3 - @], entering)
                ELSE WalkerWrites(node, entering),
     status |-> "WalkContinue"]

\* A walker that does not descend below a node it has no case for.
WalkerSkipsUnmapped(node, entering) ==
    [writes |-> WalkerWrites(node, entering),
     status |-> IF node.kind \in MappedKinds THEN "WalkContinue"
                ELSE "WalkSkipChildren"]

\* A walker that leaves emphasis of level 1 unclosed.
WalkerEmphUnclosed(node, entering) ==
    [writes |-> IF node.kind = "Emphasis" /\ node.level # 2 /\ ~entering
                THEN <<>>
                ELSE WalkerWrites(node, entering),
     status |-> "WalkContinue"]

\* The walker: what it writes, and the status it returns (main.go:204).
Walker(node, entering) ==
    [writes |-> WalkerWrites(node, entering), status |-> "WalkContinue"]

(***************************************************************************)
(* ast.Walk(doc, walker) (main.go:129): the walker is called on entering a *)
(* node, the children are walked first to last unless it answered          *)
(* WalkSkipChildren, and the walker is called again on leaving.  A frame   *)
(* of stack is a node entered and not left, with the index of its next     *)
(* child.  events keeps every call of the walker.                          *)
(***************************************************************************)
Top == stack[Len(stack)]

\* The node ast.Walk enters next, 0 when the node on top has to be left.
NextToEnter ==
    IF stack = <<>> THEN (IF events = <<>> THEN 1 ELSE 0)
    ELSE LET cs == Children(doc, Top.n)
         IN  IF Top.next <= Len(cs) THEN cs[Top.next] ELSE 0

WalkEnter ==
    /\ pc = "walk"
    /\ NextToEnter # 0
    /\ LET n == NextToEnter
           r == Walker(doc[n].label, TRUE)
           frame == [n |-> n,
                     next |-> IF r.status = "WalkSkipChildren"
                              THEN Len(Children(doc, n)) + 1
                              ELSE 1]
           below == IF stack = <<>> THEN <<>>
                    ELSE [stack EXCEPT ![Len(stack)].next = @ + 1]
       IN  /\ out' = out \o r.writes
           /\ events' = Append(events, [n |-> n, entering |-> TRUE,
                                        writes |-> r.writes,
                                        status |-> r.status])
           /\ stack' = Append(below, frame)
    /\ pc' = "walk"
    /\ UNCHANGED <<input, fm, body, resplit, meta, yamlCalls, stdout, stderr,
                   exitCode, doc>>

WalkExit ==
    /\ pc = "walk"
    /\ stack # <<>>
    /\ NextToEnter = 0
    /\ LET r == Walker(doc[Top.n].label, FALSE)
       IN  /\ out' = out \o r.writes
           /\ events' = Append(events, [n |-> Top.n, entering |-> FALSE,
                                        writes |-> r.writes,
                                        status |-> r.status])
    /\ stack' = SubSeq(stack, 1, Len(stack) - 1)
    /\ pc' = IF Len(stack) = 1 THEN "flush" ELSE "walk"
    /\ UNCHANGED <<input, fm, body, resplit, meta, yamlCalls, stdout, stderr,
                   exitCode, doc>>

\* The parser adds a node to the tree, under a node it has already made.
ParserAddsNode ==
    /\ pc = "parse"
    /\ Len(doc) < MaxNodes
    /\ \E l \in NodeLabels, p \in 1..Len(doc) :
          doc' = Append(doc, [label |-> l, parent |-> p])
    /\ UNCHANGED <<pc, input, fm, body, resplit, meta, yamlCalls, out,
                   stdout, stderr, exitCode, stack, events>>

\* The parser returns the tree, and ast.Walk is called on it.
ParserReturns ==
    /\ pc = "parse"
    /\ pc' = "walk"
    /\ UNCHANGED <<input, fm, body, resplit, meta, yamlCalls, out, stdout,
                   stderr, exitCode, doc, stack, events>>

InitRender ==
    /\ pc = "parse"
    /\ input = <<>>
    /\ NotSplitYet
    /\ NotDecodedYet
    /\ NoOutputYet
    /\ doc = <<[label |-> DocumentNode, parent |-> 0]>>
    /\ stack = <<>>
    /\ events = <<>>

NextRender == ParserAddsNode \/ ParserReturns \/ WalkEnter \/ WalkExit

SpecRender == InitRender /\ [][NextRender]_vars

(***************************************************************************)
(* main (main.go:56-76), after the flags.  input is what standard input    *)
(* holds.  yaml.Unmarshal and the goldmark parser are libraries: whether a *)
(* block decodes, the title it holds and the tree of a body are choices of *)
(* the environment.                                                        *)
(***************************************************************************)
\* main.go:56-60  input, err := io.ReadAll(os.Stdin)
ReadAll ==
    /\ pc = "read"
    /\ \/ /\ pc' = "split"
          /\ UNCHANGED <<stderr, exitCode>>
       \/ /\ stderr' = Append(stderr, "error reading stdin: ")
          /\ exitCode' = 1
          /\ pc' = "exit"
    /\ UNCHANGED <<input, fm, body, resplit, meta, yamlCalls, out, stdout,
                   doc, stack, events>>

\* A test that decodes every block that is not nil.
ShouldDecodeIfPresent(b) == b.present

\* main.go:65  len(fm) > 0
ShouldDecode(b) == LenOf(b) > 0

DecodedTitles == {<<>>, <<"a">>}

\* main.go:64-70  yaml.Unmarshal(fm, &meta), os.Exit(1) on its error.
Decode ==
    /\ pc = "decode"
    /\ IF ShouldDecode(fm)
       THEN \/ \E t \in DecodedTitles :
                 /\ yamlCalls' = Append(yamlCalls, [arg |-> fm.bytes,
                                                    err |-> FALSE])
                 /\ meta' = [meta EXCEPT !.Title = t]
                 /\ pc' = "setup"
                 /\ UNCHANGED <<stderr, exitCode>>
            \/ /\ yamlCalls' = Append(yamlCalls, [arg |-> fm.bytes,
                                                  err |-> TRUE])
               /\ stderr' = Append(stderr, "error parsing frontmatter: ")
               /\ exitCode' = 1
               /\ pc' = "exit"
               /\ UNCHANGED meta
       ELSE /\ pc' = "setup"
            /\ UNCHANGED <<meta, yamlCalls, stderr, exitCode>>
    /\ UNCHANGED <<input, fm, body, resplit, out, stdout, doc, stack, events>>

\* The trees the parser hands to a run of main.
ParsedTrees ==
    { <<[label |-> DocumentNode, parent |-> 0]>>,
      <<[label |-> DocumentNode, parent |-> 0],
        [label |-> Node("ThematicBreak", 0, <<>>, FALSE, <<>>), parent |-> 1]>>,
      <<[label |-> DocumentNode, parent |-> 0],
        [label |-> Node("Paragraph", 0, <<>>, FALSE, <<>>), parent |-> 1],
        [label |-> Node("Text", 0, <<"a">>, FALSE, <<>>), parent |-> 2]>> }

\* main.go:125-127  doc := md.Parser().Parse(reader)
Parse ==
    /\ pc = "render"
    /\ doc' \in ParsedTrees
    /\ pc' = "walk"
    /\ UNCHANGED <<input, fm, body, resplit, meta, yamlCalls, out, stdout,
                   stderr, exitCode, stack, events>>

\* main.go:73  defer w.Flush(), and the return of main.
Flush ==
    /\ pc = "flush"
    /\ stdout' = stdout \o out
    /\ exitCode' = 0
    /\ pc' = "done"
    /\ UNCHANGED <<input, fm, body, resplit, meta, yamlCalls, out, stderr,
                   doc, stack, events>>

\* Documents: an opening line or none, content, a closing line or none, and
\* what follows.
Documents ==
    { o \o c \o e \o r :
        o \in {<<>>, <<Dash, Dash, Dash, LF>>, <<Dash, Dash, Dash, CR, LF>>},
        c \in StringsUpTo({"a", LF}, MaxContent),
        e \in {<<>>, <<LF, Dash, Dash, Dash>>, <<LF, Dash, Dash, Dash, LF>>,
               <<Dash, Dash, Dash, LF>>, <<CR, LF, Dash, Dash, Dash, CR, LF>>},
        r \in {<<>>, <<"a">>} }

InitMain ==
    /\ pc = "read"
    /\ input \in Documents
    /\ NotSplitYet
    /\ NotDecodedYet
    /\ NoOutputYet
    /\ NotWalkedYet

NextMain ==
    \/ ReadAll
    \/ Split
    \/ Decode
    \/ WritePageSetup
    \/ Parse
    \/ WalkEnter
    \/ WalkExit
    \/ Flush

SpecMain == InitMain /\ [][NextMain]_vars

(***************************************************************************)
(* The header of a document as the specification words it, line by line.   *)
(***************************************************************************)
\* Length of an opening line equal to "---" (LF or CRLF ended), 0 without one.
OpeningLen(s) ==
    IF HasPrefix(s, <<Dash, Dash, Dash, LF>>) THEN 4
    ELSE IF HasPrefix(s, <<Dash, Dash, Dash, CR, LF>>) THEN 5
    ELSE 0

\* Position p (1-based) starts a line of s.
LineStart(s, p) == p = 1 \/ (p > 1 /\ p <= Len(s) /\ s[p - 1] = LF)

\* The starts of the lines after the opening line that begin with "---".
DelimiterStarts(s) ==
    {p \in (OpeningLen(s) + 1)..(Len(s) - 2) :
        /\ LineStart(s, p)
        /\ SubSeq(s, p, p + 2) = <<Dash, Dash, Dash>>}

HasHeader(s) == OpeningLen(s) > 0 /\ DelimiterStarts(s) # {}

ClosingStart(s) ==
    CHOOSE p \in DelimiterStarts(s) : \A q \in DelimiterStarts(s) : p <= q

\* s without the line terminator ("\n" or "\r\n") it ends with, if any.
StripEOL(s) ==
    IF Len(s) >= 2 /\ s[Len(s) - 1] = CR /\ s[Len(s)] = LF
    THEN SubSeq(s, 1, Len(s) - 2)
    ELSE IF Len(s) >= 1 /\ s[Len(s)] = LF
         THEN SubSeq(s, 1, Len(s) - 1)
         ELSE s

\* The lines strictly between the two delimiter lines.
RefMeta(s) == StripEOL(SubSeq(s, OpeningLen(s) + 1, ClosingStart(s) - 1))

\* The bytes strictly after the closing delimiter line.
RefBody(s) ==
    LET q == ClosingStart(s)
        ends == {p \in q..Len(s) : s[p] = LF}
    IN  IF ends = {} THEN <<>>
        ELSE SubSeq(s, (CHOOSE p \in ends : \A r \in ends : p <= r) + 1, Len(s))

\* C1: for every input whose first line is "---" and that has a later line
\* beginning with "---", splitFrontmatter returns as metadata the bytes
\* strictly between the two delimiter lines and as body the bytes strictly
\* after the closing delimiter line.
C1_HeaderSplitExact ==
    (pc # "split" /\ HasHeader(input)) =>
        /\ fm = Some(RefMeta(input))
        /\ body = RefBody(input)

\* C2: for every input that does not begin with a "---" line, and for every
\* input that begins with one but has no later closing delimiter line,
\* splitFrontmatter returns absent metadata and the input unchanged as body,
\* and no error is produced.
C2_NoHeaderWholeInputIsBody ==
    (pc # "split" /\ ~HasHeader(input)) =>
        /\ fm = Nil
        /\ body = input
        /\ exitCode = -1

\* An unterminated header: an opening line, content, no closing line.
C2_Witness ==
    /\ pc = "decode"
    /\ OpeningLen(input) > 0
    /\ Len(input) > OpeningLen(input) + 2
    /\ ~HasHeader(input)
    /\ fm = Nil
    /\ body = input

\* C3: whenever splitFrontmatter returns a metadata block m and a body b,
\* splitting "---\n" + m + "\n---\n" + b returns the pair (m, b) again.
C3_ResplitIdentical ==
    pc = "resplit" =>
        /\ resplit[1].frontmatter = fm
        /\ resplit[1].body = body

\* A document with a non-empty metadata block has been split twice.
C3_Witness ==
    /\ pc = "resplit"
    /\ fm.present
    /\ Len(fm.bytes) > 0
    /\ resplit[1].frontmatter = fm

(***************************************************************************)
(* Reading a string literal of the output format: a quote, then bytes in   *)
(* which a backslash takes the next byte with it, up to the first quote    *)
(* that no backslash precedes.                                             *)
(***************************************************************************)
Unescape(c) ==
    CASE c = "n" -> LF
      [] c = "r" -> CR
      [] OTHER -> c

RECURSIVE ReadLiteral(_, _, _)
\* Reads s from position i on; ok when the closing quote is the last byte.
ReadLiteral(s, i, acc) ==
    IF i > Len(s) THEN [ok |-> FALSE, value |-> acc]
    ELSE IF s[i] = Quote THEN [ok |-> i = Len(s), value |-> acc]
    ELSE IF s[i] = Backslash
         THEN IF i + 1 > Len(s) THEN [ok |-> FALSE, value |-> acc]
              ELSE ReadLiteral(s, i + 2, Append(acc, Unescape(s[i + 1])))
         ELSE ReadLiteral(s, i + 1, Append(acc, s[i]))

\* lit is one string literal, and it denotes the bytes value.
IsLiteralOf(lit, value) ==
    /\ Len(lit) >= 2
    /\ lit[1] = Quote
    /\ ReadLiteral(lit, 2, <<>>) = [ok |-> TRUE, value |-> value]

Range(s) == {s[i] : i \in DOMAIN s}

FixedPreamble ==
    << "#set page(paper: \"a4\")", LF,
       "#set text(font: \"SimSun\", size: 12pt, lang: \"zh\")", LF,
       "#set par(leading: 1.5em, first-line-indent: 2em)", LF,
       LF >>

TitleDirectives ==
    {"#let title = ", "#align(center, text(size: 22pt, weight: \"bold\")[",
     "])", "#v(1em)"}

\* C4: whatever the metadata record, the output of writePageSetup begins
\* with the page-size directive, the text directive, the paragraph directive
\* and a blank line, in that order; with an empty title nothing else is
\* written, and the title directives appear if and only if the title is
\* non-empty.
C4_FixedPreambleFirst ==
    pc = "render" =>
        /\ Len(out) >= Len(FixedPreamble)
        /\ SubSeq(out, 1, Len(FixedPreamble)) = FixedPreamble
        /\ (meta.Title = <<>> => out = FixedPreamble)
        /\ \A d \in TitleDirectives : (d \in Range(out)) <=> (meta.Title # <<>>)

\* The page setup of a record without a title has been written.
C4_Witness ==
    /\ pc = "render"
    /\ meta.Title = <<>>
    /\ out = FixedPreamble

\* What follows the title binding's literal: the lines of the block, with
\* or without a blank line after the binding.
AfterBinding(title, blank) ==
    <<LF>> \o (IF blank THEN <<LF>> ELSE <<>>)
    \o <<"#align(center, text(size: 22pt, weight: \"bold\")[">> \o title
    \o <<"])", LF, "#v(1em)", LF, LF>>

\* out is the fixed preamble, the title binding with a literal denoting the
\* title, and then the rest of the title block.
TitleBlockShape(o, title, blank) ==
    LET pre == FixedPreamble \o <<"#let title = ">>
        post == AfterBinding(title, blank)
    IN  /\ Len(o) >= Len(pre) + Len(post)
        /\ SubSeq(o, 1, Len(pre)) = pre
        /\ SubSeq(o, Len(o) - Len(post) + 1, Len(o)) = post
        /\ IsLiteralOf(SubSeq(o, Len(pre) + 1, Len(o) - Len(post)), title)

\* C5 as stated: with a non-empty title the lines after the fixed preamble
\* are the title binding, the centered bold block, the vertical spacing and
\* a blank line, and no other line.
C5_TitleLinesAsStated ==
    (pc = "render" /\ meta.Title # <<>>) =>
        TitleBlockShape(out, meta.Title, FALSE)

\* C5 amended: with a non-empty title the lines after the fixed preamble are
\* the title binding (the title as a string literal), a blank line, the
\* centered bold block wrapping the title verbatim, the vertical spacing and
\* a blank line.
C5_TitleLinesWithBlank ==
    (pc = "render" /\ meta.Title # <<>>) =>
        TitleBlockShape(out, meta.Title, TRUE)

\* A title holding a quote has been written.
C5_Witness ==
    /\ pc = "render"
    /\ Quote \in Range(meta.Title)
    /\ "#let title = " \in Range(out)

(***************************************************************************)
(* The rendering of a tree as the specification's table gives it.          *)
(***************************************************************************)
\* No node is a CodeSpan: every node is of a kind the table of C6 lists, or
\* of a kind without an entry, which contributes no bytes of its own.
ListedOnly(d) == \A i \in 1..Len(d) : d[i].label.kind # "CodeSpan"

RefEnter(node) ==
    CASE node.kind = "Heading" ->
            <<"#heading(level: ", Digit[node.level + 1], ")[">>
      [] node.kind = "Text" ->
            IF node.soft THEN node.text \o <<LF>> ELSE node.text
      [] node.kind = "ListItem" -> <<"- ">>
      [] node.kind = "Emphasis" ->
            IF node.level = 2 THEN <<"#strong[">> ELSE <<"#emph[">>
      [] node.kind = "ThematicBreak" -> <<"#line(length: 100%)", LF, LF>>
      [] node.kind = "FencedCodeBlock" ->
            LET all == Flatten(node.lines)
                keep == CHOOSE k \in 0..Len(all) :
                           /\ k = 0 \/ all[k] # LF
                           /\ \A j \in (k + 1)..Len(all) : all[j] = LF
            IN  <<Fence, LF>> \o SubSeq(all, 1, keep) \o <<LF, Fence, LF, LF>>
      [] OTHER -> <<>>

RefExit(node) ==
    CASE node.kind = "Heading" -> <<"]", LF, LF>>
      [] node.kind = "Paragraph" -> <<LF, LF>>
      [] node.kind = "List" -> <<LF>>
      [] node.kind = "ListItem" -> <<LF>>
      [] node.kind = "Emphasis" -> <<"]">>
      [] OTHER -> <<>>

RECURSIVE RefRender(_, _)
\* On-enter bytes, the children's renderings in their order, on-exit bytes.
RefRender(d, n) ==
    LET cs == Children(d, n)
    IN  RefEnter(d[n].label)
        \o Flatten([i \in 1..Len(cs) |-> RefRender(d, cs[i])])
        \o RefExit(d[n].label)

\* C6: for every tree without a CodeSpan, the output of renderBody is the
\* pre-order rendering: each node's on-enter bytes, its children's
\* renderings in their order, its on-exit bytes, by the table of the kinds
\* (Heading, Paragraph, Text, List, ListItem, Emphasis, ThematicBreak,
\* FencedCodeBlock; nothing for a kind without an entry).
C6_OutputIsPreorderRendering ==
    (pc = "flush" /\ ListedOnly(doc)) => out = RefRender(doc, 1)

\* A heading holding a text has been rendered.
C6_Witness ==
    /\ pc = "flush"
    /\ ListedOnly(doc)
    /\ \E i, j \in DOMAIN doc :
          /\ doc[i].label.kind = "Heading"
          /\ doc[j].label.kind = "Text"
          /\ doc[j].parent = i
    /\ out = RefRender(doc, 1)

\* The calls of the walker made on entering a CodeSpan.
CodeSpanEvents ==
    {i \in DOMAIN events :
        events[i].entering /\ doc[events[i].n].label.kind = "CodeSpan"}

\* C7: the bytes a CodeSpan writes are a raw directive whose quoted argument
\* is one string literal: read as a literal, the argument ends at the
\* directive's own closing quote and nowhere before or after it.
C7_CodeSpanLiteralTerminated ==
    \A i \in CodeSpanEvents :
        LET w == events[i].writes
        IN  /\ Len(w) >= 2
            /\ w[1] = "#raw(\""
            /\ w[Len(w)] = "\")"
            /\ ReadLiteral(SubSeq(w, 2, Len(w) - 1) \o <<Quote>>, 1, <<>>).ok

Unmapped(kind) == kind \notin MappedKinds

\* The calls of the walker on node n, entering or leaving.
CallsOn(n, entering) ==
    {i \in DOMAIN events : events[i].n = n /\ events[i].entering = entering}

\* C8: a node of a kind without a case writes nothing on enter or exit, the
\* walker answers "continue" and the process keeps running; when the walk
\* has ended the walker has been called once on entering and once on
\* leaving every node of the tree, those under an unmapped node included.
C8_UnmappedSilentWalkContinues ==
    /\ \A i \in DOMAIN events :
          /\ Unmapped(doc[events[i].n].label.kind) => events[i].writes = <<>>
          /\ events[i].status = "WalkContinue"
    /\ pc \in {"walk", "flush"} => exitCode = -1 /\ stderr = <<>>
    /\ pc = "flush" =>
          \A n \in DOMAIN doc :
              /\ Cardinality(CallsOn(n, TRUE)) = 1
              /\ Cardinality(CallsOn(n, FALSE)) = 1

\* A block quote holding a mapped node has been walked, and the mapped node
\* has written its bytes.
C8_Witness ==
    /\ pc = "flush"
    /\ \E i, j \in DOMAIN doc :
          /\ doc[i].label.kind = "Blockquote"
          /\ doc[j].parent = i
          /\ doc[j].label.kind = "ThematicBreak"
    /\ out = <<"#line(length: 100%)", LF, LF>>

BracketKinds == {"Heading", "Emphasis"}

OpeningPieces == {")[", "#strong[", "#emph["}

Count(s, S) == Cardinality({i \in DOMAIN s : s[i] \in S})

\* The brackets written by the calls on Heading and Emphasis nodes, in the
\* order written: the node and whether it is the opening one.
RECURSIVE BracketsFrom(_)
BracketsFrom(i) ==
    IF i > Len(events) THEN <<>>
    ELSE LET e == events[i]
             isB == doc[e.n].label.kind \in BracketKinds
             k == IF ~isB THEN 0
                  ELSE IF e.entering THEN Count(e.writes, OpeningPieces)
                  ELSE Count(e.writes, {"]"})
         IN  [j \in 1..k |-> [n |-> e.n, open |-> e.entering]]
             \o BracketsFrom(i + 1)

Brackets == BracketsFrom(1)

\* The Heading and Emphasis nodes entered and not left, outermost first.
RECURSIVE OpenNodesFrom(_)
OpenNodesFrom(i) ==
    IF i > Len(stack) THEN <<>>
    ELSE (IF doc[stack[i].n].label.kind \in BracketKinds
          THEN <<stack[i].n>> ELSE <<>>) \o OpenNodesFrom(i + 1)

OpenNodes == OpenNodesFrom(1)

RECURSIVE Unclosed(_, _, _)
\* Reads the brackets b from i on with the nodes st open: the nodes left
\* open at the end, or <<0>> when a closing bracket is not that of the node
\* opened last.
Unclosed(b, i, st) ==
    IF i > Len(b) THEN st
    ELSE IF b[i].open THEN Unclosed(b, i + 1, Append(st, b[i].n))
    ELSE IF st # <<>> /\ st[Len(st)] = b[i].n
         THEN Unclosed(b, i + 1, SubSeq(st, 1, Len(st) - 1))
         ELSE <<0>>

\* C10: at every point of the walk the opening brackets written by Heading
\* and Emphasis enter events less the closing ones written by their exit
\* events are as many as the Heading and Emphasis nodes entered and not yet
\* left; every closing bracket is that of the node opened last; and the
\* difference is zero when the walk has ended.
C10_BracketsBalanced ==
    LET b == Brackets
        opens == Cardinality({i \in DOMAIN b : b[i].open})
        closes == Cardinality({i \in DOMAIN b : ~b[i].open})
    IN  /\ opens - closes = Len(OpenNodes)
        /\ Unclosed(b, 1, <<>>) = OpenNodes
        /\ pc = "flush" => opens - closes = 0

\* An emphasis inside a heading has been closed, the heading still open.
C10_Witness ==
    /\ pc = "walk"
    /\ Len(Brackets) = 3
    /\ Len(OpenNodes) = 1
    /\ doc[OpenNodes[1]].label.kind = "Heading"

ReadFailed == "error reading stdin: " \in Range(stderr)

\* C9: yaml.Unmarshal is called only on a metadata block that
\* splitFrontmatter returned and that is not empty; a run on a document
\* without a header or without a closing delimiter never ends in an error
\* once the input is read; a header with content always reaches the decoder,
\* and when the decoder rejects it the run ends with exit status 1 with no
\* byte written by writePageSetup or renderBody.
C9_DriverErrorPolicy ==
    /\ Len(yamlCalls) <= 1
    /\ \A i \in DOMAIN yamlCalls :
          /\ fm.present
          /\ yamlCalls[i].arg = fm.bytes
          /\ Len(yamlCalls[i].arg) > 0
    /\ (~HasHeader(input) /\ ~ReadFailed) =>
          /\ exitCode # 1
          /\ pc # "exit"
          /\ yamlCalls = <<>>
    /\ (HasHeader(input) /\ RefMeta(input) # <<>>
        /\ pc \notin {"read", "split", "decode"} /\ ~ReadFailed) =>
          Len(yamlCalls) = 1
    /\ (\E i \in DOMAIN yamlCalls : yamlCalls[i].err) =>
          /\ pc = "exit"
          /\ exitCode = 1
          /\ out = <<>>
          /\ stdout = <<>>
    /\ (pc = "exit" \/ exitCode = 1) =>
          /\ exitCode = 1
          /\ out = <<>>
          /\ stdout = <<>>

\* The decoder has rejected the content of a delimited header.
C9_Witness ==
    /\ pc = "exit"
    /\ HasHeader(input)
    /\ Len(yamlCalls) = 1
    /\ yamlCalls[1].err
    /\ exitCode = 1
    /\ out = <<>>

====
